---------------------------- MODULE Spec2Model ----------------------------
(***************************************************************************)
(* Word navigation and word deletion commands of the editor                *)
(* (wordOperations contribution: MoveWordCommand, DeleteWordCommand,       *)
(* DeleteInsideWord) over a line-oriented text model.                      *)
(*                                                                         *)
(* The commands are translated from the contribution's source.  The core   *)
(* they call (WordOperations, WordCharacterClassifier, Position, Range,    *)
(* Selection, ReplaceCommand) lives in vs/editor/common, outside the files *)
(* at hand, and is written from sections 3, 4 and 6 of the specification.  *)
(***************************************************************************)
EXTENDS Integers, Sequences, FiniteSets, TLC

VARIABLES
    lines,                \* ITextModel: the buffer, a sequence of lines of characters
    selections,           \* editor.getSelections(): the cursors
    options,              \* editor.getOption(...): the editor configuration
    autoClosedCharacters, \* viewModel.getCursorAutoClosedCharacters()
    last,                 \* the last command run: its id, inputs and computed result
    overlay,              \* a DynamicWebviewEditorOverlay: its fields, webview and container
    client                \* the migration ServiceClient, its status view and its client

vars == <<lines, selections, options, autoClosedCharacters, last, overlay, client>>

\* The state of the editor and the state of the other two components.
editorVars == <<lines, selections, options, autoClosedCharacters, last>>

----------------------------------------------------------------------------
(* Bounds of the model *)

\* Longest text of a generated buffer, line breaks counted as one character.
MaxTextLen == 3

\* Most lines of a generated buffer.
MaxLines == 2

----------------------------------------------------------------------------
(* Values: Position, Range, Selection *)

\* The no-op signal of the deletion operations.
Null == [null |-> TRUE]

Position(lineNumber, column) ==
    [lineNumber |-> lineNumber, column |-> column]

\* A Range keeps the four numbers it is given: a range may run in either
\* direction (specification, section 3).
Range(startLineNumber, startColumn, endLineNumber, endColumn) ==
    [startLineNumber |-> startLineNumber, startColumn |-> startColumn,
     endLineNumber |-> endLineNumber, endColumn |-> endColumn]

Selection(selectionStartLineNumber, selectionStartColumn, positionLineNumber, positionColumn) ==
    [selectionStartLineNumber |-> selectionStartLineNumber,
     selectionStartColumn |-> selectionStartColumn,
     positionLineNumber |-> positionLineNumber,
     positionColumn |-> positionColumn]

\* Document order on positions.
isBefore(a, b) ==
    \/ a.lineNumber < b.lineNumber
    \/ a.lineNumber = b.lineNumber /\ a.column < b.column

isBeforeOrEqual(a, b) == a = b \/ isBefore(a, b)

getPosition(sel) == Position(sel.positionLineNumber, sel.positionColumn)

getSelectionStart(sel) == Position(sel.selectionStartLineNumber, sel.selectionStartColumn)

isEmpty(sel) == getPosition(sel) = getSelectionStart(sel)

\* The selection read as a range: its start and end positions in document order.
selectionRange(sel) ==
    LET a == getSelectionStart(sel)
        p == getPosition(sel)
    IN  IF isBeforeOrEqual(a, p)
        THEN Range(a.lineNumber, a.column, p.lineNumber, p.column)
        ELSE Range(p.lineNumber, p.column, a.lineNumber, a.column)

getStartPosition(r) == Position(r.startLineNumber, r.startColumn)

getEndPosition(r) == Position(r.endLineNumber, r.endColumn)

----------------------------------------------------------------------------
(* The text buffer accessor (specification, section 6) *)

getLineCount(model) == Len(model)

getLineContent(model, lineNumber) == model[lineNumber]

getLineMaxColumn(model, lineNumber) == Len(model[lineNumber]) + 1

isValidPosition(model, p) ==
    /\ p.lineNumber \in 1..getLineCount(model)
    /\ p.column \in 1..getLineMaxColumn(model, p.lineNumber)

----------------------------------------------------------------------------
(* CharacterClassifier (specification, section 4.1) *)

Regular == "Regular"
Whitespace == "Whitespace"
WordSeparator == "WordSeparator"

\* EditorOptions.wordSeparators.defaultValue: common punctuation, the period
\* and the parentheses among it.
USUAL_WORD_SEPARATORS ==
    <<"~", "!", "@", "#", "$", "%", "^", "&", "*", "(", ")", "-", "=", "+",
      "[", "{", "]", "}", "|", ";", ":", "'", ",", ".", "<", ">", "/", "?">>

\* The classifier built from a separator string: the set of its characters
\* (duplicates in the string make no difference).
getMapForWordSeparators(wordSeparators) ==
    {wordSeparators[i] : i \in 1..Len(wordSeparators)}

classify(classifier, ch) ==
    IF ch \in {" ", "\t"} THEN Whitespace
    ELSE IF ch \in classifier THEN WordSeparator
    ELSE Regular

----------------------------------------------------------------------------
(* WordBoundaryLocator (specification, section 4.2) *)

WordStart == "WordStart"
WordEnd == "WordEnd"
WordStartFast == "WordStartFast"
WordAccessibility == "WordAccessibility"

\* Scanning left from index i of a line, skip the characters whose class is in
\* skip: the index of the first character that is not, 0 when the line start
\* is reached.
RECURSIVE skipLeft(_, _, _, _)
skipLeft(classifier, text, i, skip) ==
    IF i >= 1 /\ classify(classifier, text[i]) \in skip
    THEN skipLeft(classifier, text, i - 1, skip)
    ELSE i

\* Scanning right from index i: the index of the first character whose class
\* is not in skip, Len(text) + 1 when the line end is reached.
RECURSIVE skipRight(_, _, _, _)
skipRight(classifier, text, i, skip) ==
    IF i <= Len(text) /\ classify(classifier, text[i]) \in skip
    THEN skipRight(classifier, text, i + 1, skip)
    ELSE i

\* The boundary column left of column on one line, 0 when the line is
\* exhausted without a boundary.  crossed: the scan comes from the next line,
\* over the line break, which counts as Whitespace.
scanLeft(classifier, text, column, wordNavigationType, crossed) ==
    CASE wordNavigationType \in {WordStart, WordAccessibility} ->
            \* the start of the nearest run of Regular characters
            LET i1 == skipLeft(classifier, text, column - 1, {Whitespace, WordSeparator})
            IN  IF i1 = 0 THEN 0
                ELSE skipLeft(classifier, text, i1, {Regular}) + 1
      [] wordNavigationType = WordStartFast ->
            \* the start of the nearest run of Regular or of WordSeparator
            \* characters; Whitespace is skipped silently
            LET i1 == skipLeft(classifier, text, column - 1, {Whitespace})
            IN  IF i1 = 0 THEN 0
                ELSE skipLeft(classifier, text, i1, {classify(classifier, text[i1])}) + 1
      [] wordNavigationType = WordEnd ->
            \* the position after the last character of the nearest Regular
            \* run that ends left of the cursor
            LET i0 == IF crossed THEN column - 1
                      ELSE skipLeft(classifier, text, column - 1, {Regular})
                i1 == skipLeft(classifier, text, i0, {Whitespace, WordSeparator})
            IN  IF i1 = 0 THEN 0 ELSE i1 + 1

\* The boundary column right of column on one line, 0 when the line is
\* exhausted.  crossed: the scan comes from the previous line.
scanRight(classifier, text, column, wordNavigationType, crossed) ==
    CASE wordNavigationType \in {WordStart, WordAccessibility} ->
            LET i0 == IF crossed THEN column
                      ELSE skipRight(classifier, text, column, {Regular})
                i1 == skipRight(classifier, text, i0, {Whitespace, WordSeparator})
            IN  IF i1 > Len(text) THEN 0 ELSE i1
      [] wordNavigationType = WordStartFast ->
            LET i0 == IF crossed \/ column > Len(text)
                         \/ classify(classifier, text[column]) = Whitespace
                      THEN column
                      ELSE skipRight(classifier, text, column,
                                     {classify(classifier, text[column])})
                i1 == skipRight(classifier, text, i0, {Whitespace})
            IN  IF i1 > Len(text) THEN 0 ELSE i1
      [] wordNavigationType = WordEnd ->
            LET i1 == skipRight(classifier, text, column, {Whitespace, WordSeparator})
            IN  IF i1 > Len(text) THEN 0
                ELSE skipRight(classifier, text, i1, {Regular})

\* WordOperations.moveWordLeft: a scan that exhausts the line continues at the
\* end of the previous line; at the first line it ends at the document start.
moveWordLeft(classifier, model, position, wordNavigationType) ==
    LET lineNumber == position.lineNumber
        found == scanLeft(classifier, getLineContent(model, lineNumber),
                          position.column, wordNavigationType, FALSE)
    IN  IF found # 0 THEN Position(lineNumber, found)
        ELSE IF lineNumber = 1 THEN Position(1, 1)
        ELSE LET above == scanLeft(classifier, getLineContent(model, lineNumber - 1),
                                   getLineMaxColumn(model, lineNumber - 1),
                                   wordNavigationType, TRUE)
             IN  Position(lineNumber - 1, IF above # 0 THEN above ELSE 1)

\* WordOperations.moveWordRight: a scan that exhausts the line continues at
\* column 1 of the next line; at the last line it clamps to its max column.
moveWordRight(classifier, model, position, wordNavigationType) ==
    LET lineNumber == position.lineNumber
        found == scanRight(classifier, getLineContent(model, lineNumber),
                           position.column, wordNavigationType, FALSE)
    IN  IF found # 0 THEN Position(lineNumber, found)
        ELSE IF lineNumber = getLineCount(model)
             THEN Position(lineNumber, getLineMaxColumn(model, lineNumber))
        ELSE LET below == scanRight(classifier, getLineContent(model, lineNumber + 1),
                                    1, wordNavigationType, TRUE)
             IN  Position(lineNumber + 1,
                          IF below # 0 THEN below
                          ELSE getLineMaxColumn(model, lineNumber + 1))

----------------------------------------------------------------------------
(* WordDeletionPlanner (specification, section 4.3) *)

\* The quote characters (of the three, the single quote is the one buffers of the model hold).
isQuote(ch) == ch \in {"'"}

\* The auto-closing-pair widening rule: the character left of the cursor opens
\* a registered pair, the character right of it is the closing
\* character of that pair and is recorded as auto-inserted, autoClosingDelete enables the
\* rule and the setting of the kind of pair (quotes or brackets) is not disabled.
isAutoClosingPairDelete(ctx) ==
    LET position == getPosition(ctx.selection)
        text == getLineContent(ctx.model, position.lineNumber)
        column == position.column
    IN  /\ isEmpty(ctx.selection)
        /\ column >= 2
        /\ column <= Len(text)
        /\ \E pair \in ctx.autoClosingPairs :
              pair.open = text[column - 1] /\ pair.close = text[column]
        /\ position \in ctx.autoClosedCharacters
        /\ ctx.autoClosingDelete # "disabled"
        /\ (IF isQuote(text[column - 1]) THEN ctx.autoClosingQuotes
            ELSE ctx.autoClosingBrackets) # "disabled"

\* The whitespace heuristic of left deletion: the run of Whitespace between
\* the cursor and the text left of it on the same line, unless it is empty or
\* is the whole line.
deleteWordLeftWhitespace(classifier, model, position) ==
    LET text == getLineContent(model, position.lineNumber)
        start == skipLeft(classifier, text, position.column - 1, {Whitespace}) + 1
    IN  IF start < position.column /\ ~(start = 1 /\ position.column = Len(text) + 1)
        THEN Range(position.lineNumber, start, position.lineNumber, position.column)
        ELSE Null

deleteWordRightWhitespace(classifier, model, position) ==
    LET text == getLineContent(model, position.lineNumber)
        end == skipRight(classifier, text, position.column, {Whitespace})
    IN  IF position.column < end /\ ~(position.column = 1 /\ end = Len(text) + 1)
        THEN Range(position.lineNumber, position.column, position.lineNumber, end)
        ELSE Null

\* WordOperations.deleteWordLeft: the range to delete, or Null (no-op).
deleteWordLeft(ctx, wordNavigationType) ==
    LET position == getPosition(ctx.selection)
        space == deleteWordLeftWhitespace(ctx.wordSeparators, ctx.model, position)
        to == moveWordLeft(ctx.wordSeparators, ctx.model, position, wordNavigationType)
    IN  IF ~isEmpty(ctx.selection) THEN selectionRange(ctx.selection)
        ELSE IF isAutoClosingPairDelete(ctx)
             THEN Range(position.lineNumber, position.column - 1,
                        position.lineNumber, position.column + 1)
        ELSE IF position = Position(1, 1) THEN Null
        ELSE IF ctx.whitespaceHeuristics /\ space # Null THEN space
        ELSE Range(to.lineNumber, to.column, position.lineNumber, position.column)

\* WordOperations.deleteWordRight: the range to delete, or Null (no-op).
deleteWordRight(ctx, wordNavigationType) ==
    LET position == getPosition(ctx.selection)
        lineCount == getLineCount(ctx.model)
        space == deleteWordRightWhitespace(ctx.wordSeparators, ctx.model, position)
        to == moveWordRight(ctx.wordSeparators, ctx.model, position, wordNavigationType)
    IN  IF ~isEmpty(ctx.selection) THEN selectionRange(ctx.selection)
        ELSE IF position = Position(lineCount, getLineMaxColumn(ctx.model, lineCount))
             THEN Null
        ELSE IF ctx.whitespaceHeuristics /\ space # Null THEN space
        ELSE Range(position.lineNumber, position.column, to.lineNumber, to.column)

\* WordOperations.deleteInsideWord: the run of Regular characters that
\* contains or touches the cursor; a zero-width range at the cursor when no
\* Regular character touches it.
deleteInsideWord(classifier, model, selection) ==
    LET position == getPosition(selection)
        text == getLineContent(model, position.lineNumber)
        start == skipLeft(classifier, text, position.column - 1, {Regular}) + 1
        end == skipRight(classifier, text, position.column, {Regular})
    IN  IF ~isEmpty(selection) THEN selectionRange(selection)
        ELSE Range(position.lineNumber, start, position.lineNumber, end)

----------------------------------------------------------------------------
(* ReplaceCommand(range, '') and editor.executeCommands *)

\* The text of the buffer as one sequence, a line break after every line
\* but the last.
RECURSIVE getValue(_, _)
getValue(model, l) ==
    IF l = Len(model) THEN model[l]
    ELSE model[l] \o <<"\n">> \o getValue(model, l + 1)

\* The offset of a position in that sequence: 1 for (1,1); the max column of
\* a line is the offset of its line break.
RECURSIVE getOffsetAt(_, _)
getOffsetAt(model, p) ==
    IF p.lineNumber = 1 THEN p.column
    ELSE Len(model[1]) + 1 + getOffsetAt(Tail(model), Position(p.lineNumber - 1, p.column))

\* The position of an offset, from line l on.
RECURSIVE getPositionAt(_, _, _)
getPositionAt(model, l, offset) ==
    IF l = Len(model) \/ offset <= Len(model[l]) + 1 THEN Position(l, offset)
    ELSE getPositionAt(model, l + 1, offset - (Len(model[l]) + 1))

\* The offsets the ranges of the commands cover.
deletedOffsets(model, commands) ==
    {o \in 1..Len(getValue(model, 1)) :
        \E i \in DOMAIN commands :
            /\ getOffsetAt(model, getStartPosition(commands[i])) <= o
            /\ o < getOffsetAt(model, getEndPosition(commands[i]))}

\* The characters of text from offset o on that are not deleted.
RECURSIVE applyEdits(_, _, _)
applyEdits(text, o, deleted) ==
    IF o > Len(text) THEN <<>>
    ELSE IF o \in deleted THEN applyEdits(text, o + 1, deleted)
    ELSE <<text[o]>> \o applyEdits(text, o + 1, deleted)

\* A text cut into its lines at the line breaks.
RECURSIVE splitLines(_, _, _)
splitLines(text, i, current) ==
    IF i > Len(text) THEN <<current>>
    ELSE IF text[i] = "\n" THEN <<current>> \o splitLines(text, i + 1, <<>>)
    ELSE splitLines(text, i + 1, Append(current, text[i]))

\* editor.executeCommands with ReplaceCommand(range, ''): the buffer with the
\* text of every range removed.
executeCommands(model, commands) ==
    splitLines(applyEdits(getValue(model, 1), 1, deletedOffsets(model, commands)), 1, <<>>)

\* After the deletions cursor i is collapsed where the start of its range
\* has come to lie.
computeCursorState(model, commands, i) ==
    LET start == getOffsetAt(model, getStartPosition(commands[i]))
        before == Cardinality({o \in deletedOffsets(model, commands) : o < start})
        to == getPositionAt(executeCommands(model, commands), 1, start - before)
    IN  Selection(to.lineNumber, to.column, to.lineNumber, to.column)

----------------------------------------------------------------------------
(* MoveWordCommand and its subclasses *)

NoCommand == [id |-> "none"]


\* LanguageConfigurationRegistry.getAutoClosingPairs(model.getLanguageId())
autoClosingPairs ==
    {[open |-> "(", close |-> ")"], [open |-> "'", close |-> "'"]}

\* Mutant: in selection mode the anchor moves and the active end stays.
MoveWordCommand_moveTo_anchor(from, to, inSelectionMode) ==
    IF inSelectionMode
    THEN Selection(to.lineNumber, to.column,
                   from.positionLineNumber, from.positionColumn)
    ELSE Selection(to.lineNumber, to.column, to.lineNumber, to.column)

MoveWordCommand_moveTo(from, to, inSelectionMode) ==
    IF inSelectionMode
    THEN \* move just position
         Selection(from.selectionStartLineNumber, from.selectionStartColumn,
                   to.lineNumber, to.column)
    ELSE \* move everything
         Selection(to.lineNumber, to.column, to.lineNumber, to.column)

\* Mutant: the left command looks for the end of a word, whatever the type.
WordLeftCommand_move_end(wordSeparators, model, position, wordNavigationType) ==
    moveWordLeft(wordSeparators, model, position, WordEnd)

\* Mutant: the left command leaves the position where it is.
WordLeftCommand_move_stay(wordSeparators, model, position, wordNavigationType) ==
    position

\* Mutant: the left command moves right.
WordLeftCommand_move_right(wordSeparators, model, position, wordNavigationType) ==
    moveWordRight(wordSeparators, model, position, wordNavigationType)

WordLeftCommand_move(wordSeparators, model, position, wordNavigationType) ==
    moveWordLeft(wordSeparators, model, position, wordNavigationType)

\* Mutant: the right command ends one column further.
WordRightCommand_move_beyond(wordSeparators, model, position, wordNavigationType) ==
    LET to == moveWordRight(wordSeparators, model, position, wordNavigationType)
    IN  Position(to.lineNumber, to.column + 1)

\* Mutant: the right command stops at the end of the line it is on.
WordRightCommand_move_sameLine(wordSeparators, model, position, wordNavigationType) ==
    LET to == moveWordRight(wordSeparators, model, position, wordNavigationType)
    IN  IF to.lineNumber = position.lineNumber THEN to
        ELSE Position(position.lineNumber, getLineMaxColumn(model, position.lineNumber))

\* Mutant: the right command moves left.
WordRightCommand_move_left(wordSeparators, model, position, wordNavigationType) ==
    moveWordLeft(wordSeparators, model, position, wordNavigationType)

WordRightCommand_move(wordSeparators, model, position, wordNavigationType) ==
    moveWordRight(wordSeparators, model, position, wordNavigationType)

\* Mutant: the accessibility command keeps the configured separators.
CursorWordAccessibilityLeft_move_configured(wordSeparators, model, position, wordNavigationType) ==
    WordLeftCommand_move(wordSeparators, model, position, wordNavigationType)

CursorWordAccessibilityLeft_move(wordSeparators, model, position, wordNavigationType) ==
    WordLeftCommand_move(getMapForWordSeparators(USUAL_WORD_SEPARATORS),
                         model, position, wordNavigationType)

CursorWordAccessibilityLeftSelect_move(wordSeparators, model, position, wordNavigationType) ==
    WordLeftCommand_move(getMapForWordSeparators(USUAL_WORD_SEPARATORS),
                         model, position, wordNavigationType)

CursorWordAccessibilityRight_move(wordSeparators, model, position, wordNavigationType) ==
    WordRightCommand_move(getMapForWordSeparators(USUAL_WORD_SEPARATORS),
                          model, position, wordNavigationType)

CursorWordAccessibilityRightSelect_move(wordSeparators, model, position, wordNavigationType) ==
    WordRightCommand_move(getMapForWordSeparators(USUAL_WORD_SEPARATORS),
                          model, position, wordNavigationType)

\* this._move: the method of the class of the command.
MoveWordCommand_move(class, wordSeparators, model, position, wordNavigationType) ==
    CASE class = "WordLeftCommand" ->
            WordLeftCommand_move(wordSeparators, model, position, wordNavigationType)
      [] class = "WordRightCommand" ->
            WordRightCommand_move(wordSeparators, model, position, wordNavigationType)
      [] class = "CursorWordAccessibilityLeft" ->
            CursorWordAccessibilityLeft_move(wordSeparators, model, position, wordNavigationType)
      [] class = "CursorWordAccessibilityLeftSelect" ->
            CursorWordAccessibilityLeftSelect_move(wordSeparators, model, position, wordNavigationType)
      [] class = "CursorWordAccessibilityRight" ->
            CursorWordAccessibilityRight_move(wordSeparators, model, position, wordNavigationType)
      [] class = "CursorWordAccessibilityRightSelect" ->
            CursorWordAccessibilityRightSelect_move(wordSeparators, model, position, wordNavigationType)

\* Mutant: every cursor is computed from the first selection.
MoveWordCommand_result_primary(class, opts, wordSeparatorsOption, model, sels) ==
    LET wordSeparators == getMapForWordSeparators(wordSeparatorsOption)
    IN  [i \in 1..Len(sels) |->
            LET sel == sels[1]
                inPosition == Position(sel.positionLineNumber, sel.positionColumn)
                outPosition == MoveWordCommand_move(class, wordSeparators, model,
                                                    inPosition, opts.wordNavigationType)
            IN  MoveWordCommand_moveTo(sel, outPosition, opts.inSelectionMode)]

\* The selections a move command computes, one per cursor.
MoveWordCommand_result(class, opts, wordSeparatorsOption, model, sels) ==
    LET wordSeparators == getMapForWordSeparators(wordSeparatorsOption)
    IN  [i \in 1..Len(sels) |->
            LET sel == sels[i]
                inPosition == Position(sel.positionLineNumber, sel.positionColumn)
                outPosition == MoveWordCommand_move(class, wordSeparators, model,
                                                    inPosition, opts.wordNavigationType)
            IN  MoveWordCommand_moveTo(sel, outPosition, opts.inSelectionMode)]

MoveWordCommand_runEditorCommand(class, opts) ==
    LET result == MoveWordCommand_result(class, opts, options.wordSeparators,
                                         lines, selections)
    IN  /\ selections' = result
        /\ last' = [id |-> opts.id,
                    opts |-> [inSelectionMode |-> opts.inSelectionMode,
                              wordNavigationType |-> opts.wordNavigationType,
                              id |-> opts.id],
                    model |-> lines,
                    selections |-> selections, result |-> result]
        /\ UNCHANGED <<lines, options, autoClosedCharacters, overlay, client>>

CursorWordStartLeft ==
    MoveWordCommand_runEditorCommand("WordLeftCommand",
        [inSelectionMode |-> FALSE, wordNavigationType |-> WordStart,
         id |-> "cursorWordStartLeft"])

CursorWordEndLeft ==
    MoveWordCommand_runEditorCommand("WordLeftCommand",
        [inSelectionMode |-> FALSE, wordNavigationType |-> WordEnd,
         id |-> "cursorWordEndLeft"])

\* Mutant: cursorWordLeft registered with the WordStart navigation type.
CursorWordLeft_wordStart ==
    MoveWordCommand_runEditorCommand("WordLeftCommand",
        [inSelectionMode |-> FALSE, wordNavigationType |-> WordStart,
         id |-> "cursorWordLeft"])

CursorWordLeft ==
    MoveWordCommand_runEditorCommand("WordLeftCommand",
        [inSelectionMode |-> FALSE, wordNavigationType |-> WordStartFast,
         id |-> "cursorWordLeft"])

CursorWordStartLeftSelect ==
    MoveWordCommand_runEditorCommand("WordLeftCommand",
        [inSelectionMode |-> TRUE, wordNavigationType |-> WordStart,
         id |-> "cursorWordStartLeftSelect"])

CursorWordEndLeftSelect ==
    MoveWordCommand_runEditorCommand("WordLeftCommand",
        [inSelectionMode |-> TRUE, wordNavigationType |-> WordEnd,
         id |-> "cursorWordEndLeftSelect"])

CursorWordLeftSelect ==
    MoveWordCommand_runEditorCommand("WordLeftCommand",
        [inSelectionMode |-> TRUE, wordNavigationType |-> WordStartFast,
         id |-> "cursorWordLeftSelect"])

CursorWordAccessibilityLeft ==
    MoveWordCommand_runEditorCommand("CursorWordAccessibilityLeft",
        [inSelectionMode |-> FALSE, wordNavigationType |-> WordAccessibility,
         id |-> "cursorWordAccessibilityLeft"])

CursorWordAccessibilityLeftSelect ==
    MoveWordCommand_runEditorCommand("CursorWordAccessibilityLeftSelect",
        [inSelectionMode |-> TRUE, wordNavigationType |-> WordAccessibility,
         id |-> "cursorWordAccessibilityLeftSelect"])

CursorWordStartRight ==
    MoveWordCommand_runEditorCommand("WordRightCommand",
        [inSelectionMode |-> FALSE, wordNavigationType |-> WordStart,
         id |-> "cursorWordStartRight"])

CursorWordEndRight ==
    MoveWordCommand_runEditorCommand("WordRightCommand",
        [inSelectionMode |-> FALSE, wordNavigationType |-> WordEnd,
         id |-> "cursorWordEndRight"])

CursorWordRight ==
    MoveWordCommand_runEditorCommand("WordRightCommand",
        [inSelectionMode |-> FALSE, wordNavigationType |-> WordEnd,
         id |-> "cursorWordRight"])

CursorWordStartRightSelect ==
    MoveWordCommand_runEditorCommand("WordRightCommand",
        [inSelectionMode |-> TRUE, wordNavigationType |-> WordStart,
         id |-> "cursorWordStartRightSelect"])

CursorWordEndRightSelect ==
    MoveWordCommand_runEditorCommand("WordRightCommand",
        [inSelectionMode |-> TRUE, wordNavigationType |-> WordEnd,
         id |-> "cursorWordEndRightSelect"])

CursorWordRightSelect ==
    MoveWordCommand_runEditorCommand("WordRightCommand",
        [inSelectionMode |-> TRUE, wordNavigationType |-> WordEnd,
         id |-> "cursorWordRightSelect"])

CursorWordAccessibilityRight ==
    MoveWordCommand_runEditorCommand("CursorWordAccessibilityRight",
        [inSelectionMode |-> FALSE, wordNavigationType |-> WordAccessibility,
         id |-> "cursorWordAccessibilityRight"])

CursorWordAccessibilityRightSelect ==
    MoveWordCommand_runEditorCommand("CursorWordAccessibilityRightSelect",
        [inSelectionMode |-> TRUE, wordNavigationType |-> WordAccessibility,
         id |-> "cursorWordAccessibilityRightSelect"])

----------------------------------------------------------------------------
(* DeleteWordCommand and its subclasses *)

\* Mutant: the left command substitutes the end of the document.
DeleteWordLeftCommand_delete_end(ctx, wordNavigationType) ==
    LET r == deleteWordLeft(ctx, wordNavigationType)
        lineCount == getLineCount(ctx.model)
        maxColumn == getLineMaxColumn(ctx.model, lineCount)
    IN  IF r # Null THEN r
        ELSE Range(lineCount, maxColumn, lineCount, maxColumn)

DeleteWordLeftCommand_delete(ctx, wordNavigationType) ==
    LET r == deleteWordLeft(ctx, wordNavigationType)
    IN  IF r # Null THEN r
        ELSE Range(1, 1, 1, 1)

\* Mutant: the right deletion hands its range on back to front.
DeleteWordRightCommand_delete_reversed(ctx, wordNavigationType) ==
    LET r == deleteWordRight(ctx, wordNavigationType)
        lineCount == getLineCount(ctx.model)
        maxColumn == getLineMaxColumn(ctx.model, lineCount)
    IN  IF r # Null
        THEN Range(r.endLineNumber, r.endColumn, r.startLineNumber, r.startColumn)
        ELSE Range(lineCount, maxColumn, lineCount, maxColumn)

DeleteWordRightCommand_delete(ctx, wordNavigationType) ==
    LET r == deleteWordRight(ctx, wordNavigationType)
        lineCount == getLineCount(ctx.model)
        maxColumn == getLineMaxColumn(ctx.model, lineCount)
    IN  IF r # Null THEN r
        ELSE Range(lineCount, maxColumn, lineCount, maxColumn)

\* this._delete: the method of the class of the command.
DeleteWordCommand_delete(class, ctx, wordNavigationType) ==
    CASE class = "DeleteWordLeftCommand" -> DeleteWordLeftCommand_delete(ctx, wordNavigationType)
      [] class = "DeleteWordRightCommand" -> DeleteWordRightCommand_delete(ctx, wordNavigationType)

\* Mutant: the context holds the cursor position in place of the selection.
DeleteWordCommand_ctx_collapsed(opts, editorOptions, closed, model, sel) ==
    [wordSeparators |-> getMapForWordSeparators(editorOptions.wordSeparators),
     model |-> model,
     selection |-> Selection(sel.positionLineNumber, sel.positionColumn,
                             sel.positionLineNumber, sel.positionColumn),
     whitespaceHeuristics |-> opts.whitespaceHeuristics,
     autoClosingDelete |-> editorOptions.autoClosingDelete,
     autoClosingBrackets |-> editorOptions.autoClosingBrackets,
     autoClosingQuotes |-> editorOptions.autoClosingQuotes,
     autoClosingPairs |-> autoClosingPairs,
     autoClosedCharacters |-> closed]

\* Mutant: the bracket and the quote settings change places.
DeleteWordCommand_ctx_swapped(opts, editorOptions, closed, model, sel) ==
    [wordSeparators |-> getMapForWordSeparators(editorOptions.wordSeparators),
     model |-> model,
     selection |-> sel,
     whitespaceHeuristics |-> opts.whitespaceHeuristics,
     autoClosingDelete |-> editorOptions.autoClosingDelete,
     autoClosingBrackets |-> editorOptions.autoClosingQuotes,
     autoClosingQuotes |-> editorOptions.autoClosingBrackets,
     autoClosingPairs |-> autoClosingPairs,
     autoClosedCharacters |-> closed]

\* The DeleteWordContext the command builds for one selection.
DeleteWordCommand_ctx(opts, editorOptions, closed, model, sel) ==
    [wordSeparators |-> getMapForWordSeparators(editorOptions.wordSeparators),
     model |-> model,
     selection |-> sel,
     whitespaceHeuristics |-> opts.whitespaceHeuristics,
     autoClosingDelete |-> editorOptions.autoClosingDelete,
     autoClosingBrackets |-> editorOptions.autoClosingBrackets,
     autoClosingQuotes |-> editorOptions.autoClosingQuotes,
     autoClosingPairs |-> autoClosingPairs,
     autoClosedCharacters |-> closed]

\* The delete ranges of the ReplaceCommands, one per cursor.
DeleteWordCommand_commands(class, opts, editorOptions, closed, model, sels) ==
    [i \in 1..Len(sels) |->
        DeleteWordCommand_delete(class,
            DeleteWordCommand_ctx(opts, editorOptions, closed, model, sels[i]),
            opts.wordNavigationType)]

DeleteWordCommand_runEditorCommand(class, opts) ==
    LET commands == DeleteWordCommand_commands(class, opts, options,
                                               autoClosedCharacters, lines, selections)
    IN  /\ lines' = executeCommands(lines, commands)
        /\ selections' = [i \in 1..Len(commands) |->
                              computeCursorState(lines, commands, i)]
        /\ last' = [id |-> opts.id,
                    opts |-> [whitespaceHeuristics |-> opts.whitespaceHeuristics,
                              wordNavigationType |-> opts.wordNavigationType,
                              id |-> opts.id],
                    model |-> lines,
                    selections |-> selections, result |-> commands]
        /\ UNCHANGED <<options, autoClosedCharacters, overlay, client>>

\* Mutant: deleteWordStartLeft registered with the WordEnd navigation type.
DeleteWordStartLeft_wordEnd ==
    DeleteWordCommand_runEditorCommand("DeleteWordLeftCommand",
        [whitespaceHeuristics |-> FALSE, wordNavigationType |-> WordEnd,
         id |-> "deleteWordStartLeft"])

DeleteWordStartLeft ==
    DeleteWordCommand_runEditorCommand("DeleteWordLeftCommand",
        [whitespaceHeuristics |-> FALSE, wordNavigationType |-> WordStart,
         id |-> "deleteWordStartLeft"])

DeleteWordEndLeft ==
    DeleteWordCommand_runEditorCommand("DeleteWordLeftCommand",
        [whitespaceHeuristics |-> FALSE, wordNavigationType |-> WordEnd,
         id |-> "deleteWordEndLeft"])

\* Mutant: deleteWordLeft registered without the whitespace heuristics.
DeleteWordLeft_noHeuristics ==
    DeleteWordCommand_runEditorCommand("DeleteWordLeftCommand",
        [whitespaceHeuristics |-> FALSE, wordNavigationType |-> WordStart,
         id |-> "deleteWordLeft"])

DeleteWordLeft ==
    DeleteWordCommand_runEditorCommand("DeleteWordLeftCommand",
        [whitespaceHeuristics |-> TRUE, wordNavigationType |-> WordStart,
         id |-> "deleteWordLeft"])

DeleteWordStartRight ==
    DeleteWordCommand_runEditorCommand("DeleteWordRightCommand",
        [whitespaceHeuristics |-> FALSE, wordNavigationType |-> WordStart,
         id |-> "deleteWordStartRight"])

DeleteWordEndRight ==
    DeleteWordCommand_runEditorCommand("DeleteWordRightCommand",
        [whitespaceHeuristics |-> FALSE, wordNavigationType |-> WordEnd,
         id |-> "deleteWordEndRight"])

DeleteWordRight ==
    DeleteWordCommand_runEditorCommand("DeleteWordRightCommand",
        [whitespaceHeuristics |-> TRUE, wordNavigationType |-> WordEnd,
         id |-> "deleteWordRight"])

\* Mutant: the default separators in place of the configured ones.
DeleteInsideWord_commands_default(wordSeparatorsOption, model, sels) ==
    LET wordSeparators == getMapForWordSeparators(USUAL_WORD_SEPARATORS)
    IN  [i \in 1..Len(sels) |-> deleteInsideWord(wordSeparators, model, sels[i])]

\* Mutant: no separators in place of the configured ones.
DeleteInsideWord_commands_noSeparators(wordSeparatorsOption, model, sels) ==
    LET wordSeparators == getMapForWordSeparators(<<>>)
    IN  [i \in 1..Len(sels) |-> deleteInsideWord(wordSeparators, model, sels[i])]

\* The delete ranges DeleteInsideWord.run computes, one per cursor.
DeleteInsideWord_commands(wordSeparatorsOption, model, sels) ==
    LET wordSeparators == getMapForWordSeparators(wordSeparatorsOption)
    IN  [i \in 1..Len(sels) |-> deleteInsideWord(wordSeparators, model, sels[i])]

DeleteInsideWord ==
    LET commands == DeleteInsideWord_commands(options.wordSeparators, lines, selections)
    IN  /\ lines' = executeCommands(lines, commands)
        /\ selections' = [i \in 1..Len(commands) |->
                              computeCursorState(lines, commands, i)]
        /\ last' = [id |-> "deleteInsideWord", opts |-> [id |-> "deleteInsideWord"],
                    model |-> lines, selections |-> selections, result |-> commands]
        /\ UNCHANGED <<options, autoClosedCharacters, overlay, client>>

----------------------------------------------------------------------------
(* The webview editor overlay and the migration service client, as          *)
(* constructed.  Their operations follow the properties of the editor.      *)

\* new DynamicWebviewEditorOverlay(id, options, contentOptions): no owner, no
\* webview, no subscription, nothing pending, the container not styled yet.
\* created counts the webviews made for the overlay and disposed holds the
\* disposed ones; calls and delivered log the sendMessage calls made on the
\* overlay and the messages handed to a webview; op is the last claim or
\* release call made on the overlay, with its argument; given holds the html,
\* state, content options and scroll progress most recently handed to the
\* overlay, by a setter, by update or by an event of its webview.
NewOverlay(retainContextWhenHidden, tryRestoreScrollPosition, contentOptions) ==
    [options |-> [retainContextWhenHidden |-> retainContextWhenHidden,
                  tryRestoreScrollPosition |-> tryRestoreScrollPosition],
     contentOptions |-> contentOptions,
     pendingMessages |-> <<>>,
     webview |-> [value |-> FALSE],
     webviewEvents |-> {},
     html |-> "",
     initialScrollProgress |-> 0,
     state |-> "undefined",
     owner |-> "undefined",
     visibility |-> "",
     created |-> 0,
     disposed |-> {},
     calls |-> <<>>,
     delivered |-> <<>>,
     op |-> <<>>,
     given |-> [html |-> "", state |-> "undefined", contentOptions |-> contentOptions,
                initialScrollProgress |-> 0]]

\* new ServiceClient(outputChannel): a status bar item, nothing started.
\* phase is the step startService is at and result what it has returned;
\* state is the state of the SqlOpsDataClient; prompts are the messages of
\* showOnErrorPrompt; appended counts the writes to the output channel.
NewServiceClient ==
    [phase |-> "constructed",
     statusView |-> [text |-> "", visible |-> FALSE],
     outputChannel |-> [shown |-> FALSE, appended |-> 0],
     dots |-> 0,
     errorMessages |-> 0,
     subscriptions |-> 0,
     result |-> "pending",
     state |-> "Initial",
     timer |-> FALSE,
     prompts |-> <<>>]

----------------------------------------------------------------------------
(* The editor: its initial states and its commands *)

\* The characters of the generated buffers: a letter, a blank and a character
\* that is a separator by default and Regular with no separators configured.
Alphabet == {"a", " ", "."}

LineBreak == "\n"

Texts(alphabet, n) == UNION {[1..k -> alphabet] : k \in 0..n}

GeneratedBuffers ==
    {splitLines(t, 1, <<>>) : t \in
        {u \in Texts(Alphabet \cup {LineBreak}, MaxTextLen) :
            Cardinality({i \in 1..Len(u) : u[i] = LineBreak}) < MaxLines}}

\* The documents of the examples of the specification (section 8).
ExampleBuffers ==
    { << <<"h", "e", "l", "l", "o">> >>,
      << <<"a", "b">>, <<" ", " ", " ", " ", "c">> >> }

\* Documents with the characters of the auto-closing pairs.
PairBuffers ==
    { << <<"(", ")">> >>, << <<"'", "'">> >>, << <<"(", "'">> >>,
      << <<"a", "(", ")">> >> }

ValidPositions(model) ==
    UNION {{Position(l, c) : c \in 1..getLineMaxColumn(model, l)} :
              l \in 1..getLineCount(model)}

WordSeparatorOptions == {USUAL_WORD_SEPARATORS, <<>>}

\* An editor on a document with one collapsed cursor.  The documents with
\* auto-closing pairs come with every auto-closing configuration.
Init ==
    /\ last = NoCommand
    /\ \/ /\ lines \in GeneratedBuffers \cup ExampleBuffers
          /\ \E ws \in WordSeparatorOptions :
                options = [wordSeparators |-> ws, autoClosingDelete |-> "auto",
                           autoClosingBrackets |-> "languageDefined",
                           autoClosingQuotes |-> "languageDefined"]
          /\ autoClosedCharacters = {}
       \/ /\ lines \in PairBuffers
          /\ \E d \in {"enabled", "auto", "disabled"},
                b \in {"languageDefined", "disabled"},
                q \in {"languageDefined", "disabled"} :
                options = [wordSeparators |-> USUAL_WORD_SEPARATORS,
                           autoClosingDelete |-> d,
                           autoClosingBrackets |-> b, autoClosingQuotes |-> q]
          /\ \/ autoClosedCharacters = {}
             \/ \E p \in ValidPositions(lines) : autoClosedCharacters = {p}
    /\ \E p \in ValidPositions(lines) :
          selections = <<Selection(p.lineNumber, p.column, p.lineNumber, p.column)>>
    /\ overlay = NewOverlay(FALSE, FALSE, "c0")
    /\ client = NewServiceClient

Next ==
    \/ CursorWordStartLeft
    \/ CursorWordEndLeft
    \/ CursorWordLeft
    \/ CursorWordStartLeftSelect
    \/ CursorWordEndLeftSelect
    \/ CursorWordLeftSelect
    \/ CursorWordAccessibilityLeft
    \/ CursorWordAccessibilityLeftSelect
    \/ CursorWordStartRight
    \/ CursorWordEndRight
    \/ CursorWordRight
    \/ CursorWordStartRightSelect
    \/ CursorWordEndRightSelect
    \/ CursorWordRightSelect
    \/ CursorWordAccessibilityRight
    \/ CursorWordAccessibilityRightSelect
    \/ DeleteWordStartLeft
    \/ DeleteWordEndLeft
    \/ DeleteWordLeft
    \/ DeleteWordStartRight
    \/ DeleteWordEndRight
    \/ DeleteWordRight
    \/ DeleteInsideWord

Spec == Init /\ [][Next]_vars

----------------------------------------------------------------------------
(* Properties.  In every state reached by a command, last holds the command, *)
(* the buffer and the cursors it ran on, and the result it computed.         *)

LeftMoveIds ==
    {"cursorWordStartLeft", "cursorWordEndLeft", "cursorWordLeft",
     "cursorWordStartLeftSelect", "cursorWordEndLeftSelect", "cursorWordLeftSelect",
     "cursorWordAccessibilityLeft", "cursorWordAccessibilityLeftSelect"}

RightMoveIds ==
    {"cursorWordStartRight", "cursorWordEndRight", "cursorWordRight",
     "cursorWordStartRightSelect", "cursorWordEndRightSelect", "cursorWordRightSelect",
     "cursorWordAccessibilityRight", "cursorWordAccessibilityRightSelect"}

AccessibilityLeftIds == {"cursorWordAccessibilityLeft", "cursorWordAccessibilityLeftSelect"}

AccessibilityRightIds == {"cursorWordAccessibilityRight", "cursorWordAccessibilityRightSelect"}

DeleteLeftIds == {"deleteWordStartLeft", "deleteWordEndLeft", "deleteWordLeft"}

DeleteRightIds == {"deleteWordStartRight", "deleteWordEndRight", "deleteWordRight"}

Cursors == 1..Len(last.selections)

\* The position a cursor had when the last command ran, and the one it got.
inPositionOf(i) == getPosition(last.selections[i])

outPositionOf(i) == getPosition(last.result[i])

documentEnd(model) ==
    Position(getLineCount(model), getLineMaxColumn(model, getLineCount(model)))

DefaultClassifier == getMapForWordSeparators(USUAL_WORD_SEPARATORS)

ConfiguredClassifier == getMapForWordSeparators(options.wordSeparators)

\* The context of the core deletion operation for cursor i of the last command.
ctxOf(i) ==
    [wordSeparators |-> ConfiguredClassifier,
     model |-> last.model,
     selection |-> last.selections[i],
     whitespaceHeuristics |-> last.opts.whitespaceHeuristics,
     autoClosingDelete |-> options.autoClosingDelete,
     autoClosingBrackets |-> options.autoClosingBrackets,
     autoClosingQuotes |-> options.autoClosingQuotes,
     autoClosingPairs |-> autoClosingPairs,
     autoClosedCharacters |-> autoClosedCharacters]

\* C1: every word-left command (all four navigation types, with and without
\* selection) run with the cursor at (1,1) leaves the cursor at (1,1),
\* whatever the buffer.
C1_MoveWordLeftAtDocumentStart ==
    last.id \in LeftMoveIds =>
        \A i \in Cursors :
            inPositionOf(i) = Position(1, 1) => outPositionOf(i) = Position(1, 1)

\* A word-left command ran at (1,1) of a document that has text on its first
\* line and more lines below.
C1_Witness ==
    /\ last.id = "cursorWordLeft"
    /\ inPositionOf(1) = Position(1, 1)
    /\ outPositionOf(1) = Position(1, 1)
    /\ Len(last.model) > 1
    /\ Len(last.model[1]) > 0

C3_AccessibilityUsesDefaultSeparators ==
    /\ last.id \in AccessibilityLeftIds =>
          \A i \in Cursors :
              outPositionOf(i) = moveWordLeft(DefaultClassifier, last.model,
                                              inPositionOf(i), WordAccessibility)
    /\ last.id \in AccessibilityRightIds =>
          \A i \in Cursors :
              outPositionOf(i) = moveWordRight(DefaultClassifier, last.model,
                                               inPositionOf(i), WordAccessibility)

\* An accessibility command ran in an editor configured with no separators,
\* where the configured classifier gives another position than the one reached.
C3_Witness ==
    /\ last.id = "cursorWordAccessibilityLeft"
    /\ options.wordSeparators = <<>>
    /\ outPositionOf(1) # moveWordLeft(ConfiguredClassifier, last.model,
                                       inPositionOf(1), WordAccessibility)

\* C4: with a non-empty selection every delete command (word left, word
\* right, inside word; any navigation type, whitespace heuristics on or off,
\* any auto-closing configuration) deletes exactly the selection: the range
\* from the earlier to the later of its two ends.
C4_NonEmptySelectionIsDeleted ==
    last.id \in DeleteLeftIds \cup DeleteRightIds \cup {"deleteInsideWord"} =>
        \A i \in Cursors :
            ~isEmpty(last.selections[i]) =>
                LET r == last.result[i]
                    a == getSelectionStart(last.selections[i])
                    p == getPosition(last.selections[i])
                IN  /\ {getStartPosition(r), getEndPosition(r)} = {a, p}
                    /\ isBefore(getStartPosition(r), getEndPosition(r))

\* A delete-word-left command with whitespace heuristics ran on a selection
\* that spans a line break and whose anchor lies after its position.
C4_Witness ==
    /\ last.id = "deleteWordLeft"
    /\ ~isEmpty(last.selections[1])
    /\ isBefore(getPosition(last.selections[1]), getSelectionStart(last.selections[1]))
    /\ last.result[1].startLineNumber < last.result[1].endLineNumber

\* C5: when the core deletion operation signals no-op the left command
\* deletes the zero-width range (1,1,1,1) and the right command the
\* zero-width range at the end of the last line; a range the core returns is
\* passed on unchanged.
C5_NoOpSubstitution ==
    /\ last.id \in DeleteLeftIds =>
          \A i \in Cursors :
              LET r == deleteWordLeft(ctxOf(i), last.opts.wordNavigationType)
              IN  last.result[i] = IF r = Null THEN Range(1, 1, 1, 1) ELSE r
    /\ last.id \in DeleteRightIds =>
          \A i \in Cursors :
              LET r == deleteWordRight(ctxOf(i), last.opts.wordNavigationType)
                  end == documentEnd(last.model)
              IN  last.result[i] =
                    IF r = Null
                    THEN Range(end.lineNumber, end.column, end.lineNumber, end.column)
                    ELSE r

\* The core signalled no-op to a left deletion at the start of a document
\* with text, and the command deleted the empty range at (1,1).
C5_Witness ==
    /\ last.id = "deleteWordStartLeft"
    /\ Len(last.model[1]) > 0
    /\ deleteWordLeft(ctxOf(1), last.opts.wordNavigationType) = Null
    /\ last.result[1] = Range(1, 1, 1, 1)
    /\ lines = last.model

\* The class of character k of line l of the buffer the last command ran
\* on, under the configured separators.
classAt(l, k) == classify(ConfiguredClassifier, last.model[l][k])

allOfClass(l, from, to, class) == \A k \in from..to : classAt(l, k) = class

\* C6: with a collapsed cursor at p, no whitespace heuristics and no
\* auto-closing pair to widen for, deleteWordStartLeft deletes from
\* moveWordLeft(p, WordStart) to p and deleteWordEndRight deletes from p to
\* moveWordRight(p, WordEnd).
C6_DeletionBoundaryIsNavigationBoundary ==
    /\ last.id = "deleteWordStartLeft" =>
          \A i \in Cursors :
              isEmpty(last.selections[i]) /\ ~isAutoClosingPairDelete(ctxOf(i)) =>
                  LET p == inPositionOf(i)
                      to == moveWordLeft(ConfiguredClassifier, last.model, p, WordStart)
                  IN  last.result[i] = Range(to.lineNumber, to.column, p.lineNumber, p.column)
    /\ last.id = "deleteWordEndRight" =>
          \A i \in Cursors :
              isEmpty(last.selections[i]) =>
                  LET p == inPositionOf(i)
                      to == moveWordRight(ConfiguredClassifier, last.model, p, WordEnd)
                  IN  last.result[i] = Range(p.lineNumber, p.column, to.lineNumber, to.column)

\* deleteWordStartLeft ran with a collapsed cursor behind a blank and deleted
\* back into the previous line, where moveWordLeft leads.
C6_Witness ==
    /\ last.id = "deleteWordStartLeft"
    /\ isEmpty(last.selections[1])
    /\ inPositionOf(1).lineNumber = 2
    /\ inPositionOf(1).column = 2
    /\ classAt(2, 1) = Whitespace
    /\ last.result[1].startLineNumber = 1
    /\ getStartPosition(last.result[1]) =
          moveWordLeft(ConfiguredClassifier, last.model, inPositionOf(1), WordStart)
    /\ Len(lines) = 1

\* C7: with whitespace heuristics and a collapsed cursor, when the
\* characters next to the cursor in the direction of deletion form a run of
\* Whitespace that is not the whole line, deleteWordLeft / deleteWordRight
\* delete exactly that run, on the line of the cursor.
C7_WhitespaceRunIsDeleted ==
    /\ last.id = "deleteWordLeft" =>
          \A i \in Cursors :
              isEmpty(last.selections[i]) =>
                  LET l == inPositionOf(i).lineNumber
                      c == inPositionOf(i).column
                  IN  \A s \in 1..(c - 1) :
                          /\ allOfClass(l, s, c - 1, Whitespace)
                          /\ s = 1 \/ classAt(l, s - 1) # Whitespace
                          /\ ~(s = 1 /\ c = getLineMaxColumn(last.model, l))
                          => last.result[i] = Range(l, s, l, c)
    /\ last.id = "deleteWordRight" =>
          \A i \in Cursors :
              isEmpty(last.selections[i]) =>
                  LET l == inPositionOf(i).lineNumber
                      c == inPositionOf(i).column
                      max == getLineMaxColumn(last.model, l)
                  IN  \A e \in (c + 1)..max :
                          /\ allOfClass(l, c, e - 1, Whitespace)
                          /\ e = max \/ classAt(l, e) # Whitespace
                          /\ ~(c = 1 /\ e = max)
                          => last.result[i] = Range(l, c, l, e)

\* deleteWordLeft ran right after the 4 leading blanks of the second line and
\* deleted columns 1 to 5 of that line, leaving the first line as it was.
C7_Witness ==
    /\ last.id = "deleteWordLeft"
    /\ last.model = << <<"a", "b">>, <<" ", " ", " ", " ", "c">> >>
    /\ last.selections = <<Selection(2, 5, 2, 5)>>
    /\ last.result = <<Range(2, 1, 2, 5)>>
    /\ lines = << <<"a", "b">>, <<"c">> >>

\* C8: a left deletion with a collapsed cursor deletes the character on
\* each side of the cursor exactly when the left one opens a registered
\* auto-closing pair, the right one is the closing character of that pair and
\* is recorded in autoClosedCharacters, autoClosingDelete enables it and the
\* setting of that kind of pair (quotes or brackets) is not disabled.
C8_AutoClosingPairWidening ==
    last.id \in DeleteLeftIds =>
        \A i \in Cursors :
            isEmpty(last.selections[i]) =>
                LET l == inPositionOf(i).lineNumber
                    c == inPositionOf(i).column
                    text == last.model[l]
                IN  (last.result[i] = Range(l, c - 1, l, c + 1))
                    <=>
                    /\ c >= 2
                    /\ c <= Len(text)
                    /\ [open |-> text[c - 1], close |-> text[c]] \in autoClosingPairs
                    /\ Position(l, c) \in autoClosedCharacters
                    /\ options.autoClosingDelete \in {"enabled", "auto"}
                    /\ \/ text[c - 1] = "'" /\ options.autoClosingQuotes # "disabled"
                       \/ text[c - 1] # "'" /\ options.autoClosingBrackets # "disabled"

\* A left deletion between an opening parenthesis and its recorded closing
\* one removed both, with the quote setting disabled.
C8_Witness ==
    /\ last.id = "deleteWordLeft"
    /\ last.model = << <<"a", "(", ")">> >>
    /\ last.selections = <<Selection(1, 3, 1, 3)>>
    /\ options.autoClosingQuotes = "disabled"
    /\ last.result = <<Range(1, 2, 1, 4)>>
    /\ lines = << <<"a">> >>

\* C9: deleteInsideWord with a collapsed cursor in or next to a maximal run
\* of Regular characters deletes exactly that run; on the line hello every
\* interior column gives columns 1 to 6.
C9_DeleteInsideWordSpansTheRun ==
    last.id = "deleteInsideWord" =>
        \A i \in Cursors :
            isEmpty(last.selections[i]) =>
                LET l == inPositionOf(i).lineNumber
                    c == inPositionOf(i).column
                    max == getLineMaxColumn(last.model, l)
                IN  /\ \A s \in 1..c, e \in c..max :
                          /\ s < e
                          /\ allOfClass(l, s, e - 1, Regular)
                          /\ s = 1 \/ classAt(l, s - 1) # Regular
                          /\ e = max \/ classAt(l, e) # Regular
                          => last.result[i] = Range(l, s, l, e)
                    /\ last.model = << <<"h", "e", "l", "l", "o">> >> /\ c \in 2..5
                          => last.result[i] = Range(1, 1, 1, 6)

\* deleteInsideWord ran at an interior column of hello and emptied the line.
C9_Witness ==
    /\ last.id = "deleteInsideWord"
    /\ last.model = << <<"h", "e", "l", "l", "o">> >>
    /\ last.selections = <<Selection(1, 3, 1, 3)>>
    /\ last.result = <<Range(1, 1, 1, 6)>>
    /\ lines = << <<>> >>

\* C10: deleteInsideWord with a collapsed cursor that no Regular character
\* touches deletes the zero-width range at the cursor: the buffer stays as
\* it was.
C10_DeleteInsideWordOutsideWords ==
    last.id = "deleteInsideWord" =>
        \A i \in Cursors :
            isEmpty(last.selections[i]) =>
                LET l == inPositionOf(i).lineNumber
                    c == inPositionOf(i).column
                    max == getLineMaxColumn(last.model, l)
                IN  /\ c = 1 \/ classAt(l, c - 1) # Regular
                    /\ c = max \/ classAt(l, c) # Regular
                    => /\ last.result[i] = Range(l, c, l, c)
                       /\ lines = last.model

\* deleteInsideWord ran with the cursor between a word separator and a blank.
C10_Witness ==
    /\ last.id = "deleteInsideWord"
    /\ isEmpty(last.selections[1])
    /\ inPositionOf(1) = Position(1, 2)
    /\ Len(last.model[1]) = 3
    /\ classAt(1, 1) = WordSeparator
    /\ classAt(1, 2) = Whitespace
    /\ classAt(1, 3) = Regular
    /\ last.result[1] = Range(1, 2, 1, 2)
    /\ lines = last.model

----------------------------------------------------------------------------
(* Repeated navigation: the same direction key pressed again and again, on  *)
(* the generated documents and on the line foo.bar(baz) of section 8.       *)

FooBarBaz == << <<"f", "o", "o", ".", "b", "a", "r", "(", "b", "a", "z", ")">> >>

WalkBuffers == GeneratedBuffers \cup ExampleBuffers \cup {FooBarBaz}

WalkInit ==
    /\ last = NoCommand
    /\ lines \in WalkBuffers
    /\ \E ws \in WordSeparatorOptions :
          options = [wordSeparators |-> ws, autoClosingDelete |-> "auto",
                     autoClosingBrackets |-> "languageDefined",
                     autoClosingQuotes |-> "languageDefined"]
    /\ autoClosedCharacters = {}
    /\ \E p \in ValidPositions(lines) :
          selections = <<Selection(p.lineNumber, p.column, p.lineNumber, p.column)>>
    /\ overlay = NewOverlay(FALSE, FALSE, "c0")
    /\ client = NewServiceClient

\* One more word-left command after none or after word-left commands.
WalkLeft ==
    /\ last.id \in {"none"} \cup LeftMoveIds
    /\ \/ CursorWordStartLeft
       \/ CursorWordEndLeft
       \/ CursorWordLeft
       \/ CursorWordAccessibilityLeft

\* One more word-right command after none or after word-right commands.
WalkRight ==
    /\ last.id \in {"none"} \cup RightMoveIds
    /\ \/ CursorWordStartRight
       \/ CursorWordEndRight
       \/ CursorWordRight
       \/ CursorWordAccessibilityRight

WalkNext == WalkLeft \/ WalkRight

\* The key is pressed again as long as it moves the cursor.
WalkSpec == WalkInit /\ [][WalkNext]_vars /\ WF_vars(WalkNext)

\* The start columns of foo, of the dot, of bar, of the parenthesis and of baz.
FooBarBazStops == {1, 4, 5, 8, 9}

\* The nearest of the stops left of column c.
stopLeftOf(c) ==
    CHOOSE s \in FooBarBazStops :
        s < c /\ \A t \in FooBarBazStops : t < c => t <= s

MovedOn ==
    /\ last.id \in LeftMoveIds =>
          \A i \in Cursors :
              inPositionOf(i) # Position(1, 1) => isBefore(outPositionOf(i), inPositionOf(i))
    /\ last.id \in RightMoveIds =>
          \A i \in Cursors :
              inPositionOf(i) # documentEnd(last.model)
                  => isBefore(inPositionOf(i), outPositionOf(i))

\* The walk has arrived: at (1,1) going left, at the document end going right.
Arrived ==
    \/ last.id \in LeftMoveIds /\ getPosition(selections[1]) = Position(1, 1)
    \/ last.id \in RightMoveIds /\ getPosition(selections[1]) = documentEnd(lines)

\* C19: for every navigation type a word-left command from a position
\* other than (1,1) ends strictly earlier in the document and a word-right
\* command from a position other than the document end strictly later, so
\* a walk to the left arrives at (1,1) and a walk to the right at the end of
\* the last line, and stays there.
C19_NavigationMakesProgress == [](MovedOn) /\ <>[](Arrived)

\* A word-left command left a line that had nothing to stop at for the end
\* of the word on the line before.
C19_Witness ==
    /\ last.id = "cursorWordEndLeft"
    /\ getLineCount(last.model) = 2
    /\ inPositionOf(1) = Position(2, 2)
    /\ outPositionOf(1) = Position(1, 2)
    /\ isBefore(outPositionOf(1), inPositionOf(1))

----------------------------------------------------------------------------
(* Round trip: cursorWordStartRight, then cursorWordStartLeft. *)

RoundTripRight == last.id = "none" /\ CursorWordStartRight

RoundTripLeft == last.id = "cursorWordStartRight" /\ CursorWordStartLeft

RoundTripNext == RoundTripRight \/ RoundTripLeft

RoundTripSpec == WalkInit /\ [][RoundTripNext]_vars

\* Position p lies strictly inside a run of Regular characters of the buffer
\* the last command ran on.
strictlyInsideRun(p) ==
    /\ p.column >= 2
    /\ p.column <= Len(last.model[p.lineNumber])
    /\ classAt(p.lineNumber, p.column - 1) = Regular
    /\ classAt(p.lineNumber, p.column) = Regular

\* Column s starts the maximal run of Regular characters that reaches column
\* c - 1 of line l.
startsRunBefore(l, s, c) ==
    /\ s < c
    /\ allOfClass(l, s, c - 1, Regular)
    /\ s = 1 \/ classAt(l, s - 1) # Regular

\* C12: when cursorWordStartRight ran with the cursor strictly inside a
\* maximal run of Regular characters, the cursorWordStartLeft that follows
\* puts the cursor on the start column of that run.
C12_RightThenLeftReturnsRunStart ==
    [][ last.id = "cursorWordStartRight" /\ last'.id = "cursorWordStartLeft" =>
            \A i \in Cursors :
                strictlyInsideRun(inPositionOf(i)) =>
                    \A s \in 1..inPositionOf(i).column :
                        startsRunBefore(inPositionOf(i).lineNumber, s,
                                        inPositionOf(i).column)
                            => getPosition(last'.result[i]) =
                                   Position(inPositionOf(i).lineNumber, s)
      ]_vars

\* cursorWordStartLeft ran after cursorWordStartRight had taken the cursor
\* from inside a word of line 1 to line 2, and brought it back to the start
\* of that word.
C12_Witness ==
    /\ last.id = "cursorWordStartLeft"
    /\ inPositionOf(1).lineNumber = 2
    /\ outPositionOf(1) = Position(1, 1)
    /\ strictlyInsideRun(Position(1, 2))
    /\ WordRightCommand_move(ConfiguredClassifier, last.model, Position(1, 2), WordStart)
          = inPositionOf(1)

----------------------------------------------------------------------------
(* Navigation over a line break *)

\* The classifier the last move command scanned with.
lastClassifier ==
    IF last.id \in AccessibilityLeftIds \cup AccessibilityRightIds
    THEN DefaultClassifier
    ELSE ConfiguredClassifier

\* C13: a word-left command at column 1 of a line n > 1 ends on line
\* n - 1, where a scan from behind a blank appended to that line would end
\* (column 1 when that scan finds nothing); a word-right command at the max
\* column of a line n < lineCount ends on line n + 1, where a scan from
\* before a blank put in front of that line would end (its max column when
\* that scan finds nothing).  The line break acts as one Whitespace character.
C13_ScanContinuesOnNeighbouringLine ==
    /\ last.id \in LeftMoveIds =>
          \A i \in Cursors :
              inPositionOf(i).column = 1 /\ inPositionOf(i).lineNumber > 1 =>
                  LET n == inPositionOf(i).lineNumber
                      above == getLineContent(last.model, n - 1)
                      found == scanLeft(lastClassifier, Append(above, " "), Len(above) + 2,
                                        last.opts.wordNavigationType, FALSE)
                  IN  outPositionOf(i) = Position(n - 1, IF found # 0 THEN found ELSE 1)
    /\ last.id \in RightMoveIds =>
          \A i \in Cursors :
              LET n == inPositionOf(i).lineNumber
              IN  /\ inPositionOf(i).column = getLineMaxColumn(last.model, n)
                  /\ n < getLineCount(last.model)
                  => LET below == getLineContent(last.model, n + 1)
                         found == scanRight(lastClassifier, <<" ">> \o below, 1,
                                            last.opts.wordNavigationType, FALSE)
                     IN  outPositionOf(i) =
                             Position(n + 1, IF found # 0 THEN found - 1
                                             ELSE getLineMaxColumn(last.model, n + 1))

\* cursorWordEndLeft at the start of line 2 went to the end of the word that
\* ends line 1: the line break ended the word.
C13_Witness ==
    /\ last.id = "cursorWordEndLeft"
    /\ inPositionOf(1) = Position(2, 1)
    /\ Len(last.model[1]) >= 1
    /\ classAt(1, Len(last.model[1])) = Regular
    /\ outPositionOf(1) = Position(1, getLineMaxColumn(last.model, 1))
    /\ selections = <<Selection(1, getLineMaxColumn(lines, 1), 1, getLineMaxColumn(lines, 1))>>

----------------------------------------------------------------------------
(* Several cursors: an editor with two cursors, in either order. *)

MultiInit ==
    /\ last = NoCommand
    /\ lines \in GeneratedBuffers
    /\ \E ws \in WordSeparatorOptions :
          options = [wordSeparators |-> ws, autoClosingDelete |-> "auto",
                     autoClosingBrackets |-> "languageDefined",
                     autoClosingQuotes |-> "languageDefined"]
    /\ autoClosedCharacters = {}
    /\ \E p, q \in ValidPositions(lines) :
          /\ p # q
          /\ selections = <<Selection(p.lineNumber, p.column, p.lineNumber, p.column),
                            Selection(q.lineNumber, q.column, q.lineNumber, q.column)>>
    /\ overlay = NewOverlay(FALSE, FALSE, "c0")
    /\ client = NewServiceClient

\* Commands of every class: MoveWordCommand to the left and to the right,
\* with and without selection, with the overridden _move, DeleteWordCommand
\* to the left and to the right, DeleteInsideWord.
MultiNext ==
    \/ CursorWordLeft
    \/ CursorWordEndRight
    \/ CursorWordStartRightSelect
    \/ CursorWordAccessibilityLeftSelect
    \/ DeleteWordLeft
    \/ DeleteWordEndRight
    \/ DeleteInsideWord

MultiSpec == MultiInit /\ [][MultiNext]_vars

\* The class of the move command with the given id.
moveClassOf(id) ==
    CASE id = "cursorWordAccessibilityLeft" -> "CursorWordAccessibilityLeft"
      [] id = "cursorWordAccessibilityLeftSelect" -> "CursorWordAccessibilityLeftSelect"
      [] id = "cursorWordAccessibilityRight" -> "CursorWordAccessibilityRight"
      [] id = "cursorWordAccessibilityRightSelect" -> "CursorWordAccessibilityRightSelect"
      [] id \in LeftMoveIds -> "WordLeftCommand"
      [] id \in RightMoveIds -> "WordRightCommand"

\* What the last command computes for selection i when it is the only one.
resultAlone(i) ==
    CASE last.id \in LeftMoveIds \cup RightMoveIds ->
            MoveWordCommand_result(moveClassOf(last.id), last.opts, options.wordSeparators,
                                   last.model, <<last.selections[i]>>)[1]
      [] last.id \in DeleteLeftIds ->
            DeleteWordCommand_commands("DeleteWordLeftCommand", last.opts, options,
                                       autoClosedCharacters, last.model,
                                       <<last.selections[i]>>)[1]
      [] last.id \in DeleteRightIds ->
            DeleteWordCommand_commands("DeleteWordRightCommand", last.opts, options,
                                       autoClosedCharacters, last.model,
                                       <<last.selections[i]>>)[1]
      [] last.id = "deleteInsideWord" ->
            DeleteInsideWord_commands(options.wordSeparators, last.model,
                                      <<last.selections[i]>>)[1]

\* C14: what a move or delete command computes for a selection is what it
\* computes for that selection alone on the same buffer, whatever the other
\* selections and their order; a move command leaves the buffer as it was.
C14_CursorsAreIndependent ==
    last.id # "none" =>
        /\ Len(last.result) = Len(last.selections)
        /\ \A i \in Cursors : last.result[i] = resultAlone(i)
        /\ last.id \in LeftMoveIds \cup RightMoveIds => lines = last.model

\* A word-left command ran with two cursors, the second before the first in
\* the document, and took them to different places.
C14_Witness ==
    /\ last.id = "cursorWordLeft"
    /\ Len(last.selections) = 2
    /\ isBefore(inPositionOf(2), inPositionOf(1))
    /\ outPositionOf(1) # outPositionOf(2)
    /\ outPositionOf(2) # inPositionOf(2)
    /\ selections = last.result

----------------------------------------------------------------------------
(* Ranges handed to ReplaceCommand *)

\* C15: every range a delete command or deleteInsideWord hands to its
\* ReplaceCommand, the no-op substitutes included, starts at or before its
\* end in document order.
C15_DeleteRangesAreNormalized ==
    last.id \in DeleteLeftIds \cup DeleteRightIds \cup {"deleteInsideWord"} =>
        \A i \in Cursors :
            isBeforeOrEqual(getStartPosition(last.result[i]), getEndPosition(last.result[i]))

\* A right deletion ran on a selection made backwards, its active end before
\* its anchor, and deleted the range from the active end to the anchor.
C15_Witness ==
    /\ last.id \in DeleteRightIds
    /\ isBefore(getPosition(last.selections[1]), getSelectionStart(last.selections[1]))
    /\ getStartPosition(last.result[1]) = getPosition(last.selections[1])
    /\ getEndPosition(last.result[1]) = getSelectionStart(last.selections[1])
    /\ lines # last.model

----------------------------------------------------------------------------
(* The selections of the move commands *)

\* The position this._move computed for cursor i of the last move command.
computedPositionOf(i) ==
    MoveWordCommand_move(moveClassOf(last.id), ConfiguredClassifier, last.model,
                         inPositionOf(i), last.opts.wordNavigationType)

\* C18: a move command in selection mode keeps the anchor of each
\* selection and makes the computed position its active end; outside
\* selection mode it collapses the selection at the computed position.
C18_MoveToKeepsAnchorInSelectionMode ==
    last.id \in LeftMoveIds \cup RightMoveIds =>
        \A i \in Cursors :
            LET from == last.selections[i]
                to == computedPositionOf(i)
                new == last.result[i]
            IN  /\ new.positionLineNumber = to.lineNumber
                /\ new.positionColumn = to.column
                /\ last.opts.inSelectionMode =>
                      /\ new.selectionStartLineNumber = from.selectionStartLineNumber
                      /\ new.selectionStartColumn = from.selectionStartColumn
                /\ ~last.opts.inSelectionMode =>
                      /\ new.selectionStartLineNumber = to.lineNumber
                      /\ new.selectionStartColumn = to.column

\* A select command ran on a selection that was not empty and moved its
\* active end away from the anchor it kept.
C18_Witness ==
    /\ last.id \in LeftMoveIds \cup RightMoveIds
    /\ last.opts.inSelectionMode
    /\ ~isEmpty(last.selections[1])
    /\ getSelectionStart(last.result[1]) = getSelectionStart(last.selections[1])
    /\ getPosition(last.result[1]) # getPosition(last.selections[1])
    /\ getPosition(last.result[1]) # getSelectionStart(last.result[1])
    /\ selections = last.result

----------------------------------------------------------------------------
(* DynamicWebviewEditorOverlay *)

\* Most webviews created for one overlay.
MaxWebviews == 2

\* Most sendMessage calls on one overlay.
MaxMessages == 2

Owners == {"A", "B"}

Htmls == {"h1", "h2"}

WebviewStates == {"undefined", "s1"}

ContentOptions == {"c0", "c1"}

ScrollProgress == {0, 1}

Messages == {"m1", "m2"}

\* The events of a webview the overlay subscribes to.
WebviewEventNames ==
    {"onDidFocus", "onDidClickLink", "onDidScroll", "onDidUpdateState", "onMessage"}

\* this._webviewService.createWebview(this.id, this.options, this._contentOptions)
createWebview(o) ==
    [value |-> TRUE, id |-> o.created + 1, contentOptions |-> o.contentOptions,
     html |-> "", state |-> "undefined", initialScrollProgress |-> 0,
     mounted |-> FALSE, received |-> <<>>]

\* Mutant: show makes a new webview also when there is one.
show_recreate(o) ==
    [o EXCEPT !.webview = [createWebview(o) EXCEPT !.state = o.state, !.html = o.html,
                                                   !.mounted = TRUE],
              !.created = @ + 1,
              !.webviewEvents = {[webview |-> o.created + 1, event |-> e] :
                                    e \in WebviewEventNames},
              !.visibility = "visible"]

\* Mutant: show makes the container visible only when it makes a webview.
show_visibleWhenCreated(o) ==
    IF ~o.webview.value
    THEN LET webview ==
                 [createWebview(o) EXCEPT
                     !.state = o.state,
                     !.html = o.html,
                     !.initialScrollProgress =
                         IF o.options.tryRestoreScrollPosition
                         THEN o.initialScrollProgress ELSE @,
                     !.mounted = TRUE,
                     !.received = o.pendingMessages]
         IN  [o EXCEPT !.webview = webview,
                       !.created = @ + 1,
                       !.webviewEvents = {[webview |-> webview.id, event |-> e] :
                                             e \in WebviewEventNames},
                       !.delivered = @ \o o.pendingMessages,
                       !.pendingMessages = <<>>,
                       !.visibility = "visible"]
    ELSE o

show(o) ==
    IF ~o.webview.value
    THEN LET webview ==
                 [createWebview(o) EXCEPT
                     !.state = o.state,
                     !.html = o.html,
                     !.initialScrollProgress =
                         IF o.options.tryRestoreScrollPosition
                         THEN o.initialScrollProgress ELSE @,
                     !.mounted = TRUE,
                     !.received = o.pendingMessages]
         IN  [o EXCEPT !.webview = webview,
                       !.created = @ + 1,
                       !.webviewEvents = {[webview |-> webview.id, event |-> e] :
                                             e \in WebviewEventNames},
                       !.delivered = @ \o o.pendingMessages,
                       !.pendingMessages = <<>>,
                       !.visibility = "visible"]
    ELSE [o EXCEPT !.visibility = "visible"]

claim(o, owner) == show([o EXCEPT !.owner = owner])

\* Mutant: release does not look at who asks.
release_anyOwner(o, owner) ==
    IF o.options.retainContextWhenHidden
    THEN [o EXCEPT !.owner = "undefined", !.visibility = "hidden"]
    ELSE [o EXCEPT !.owner = "undefined",
                   !.webview = [value |-> FALSE],
                   !.disposed = @ \cup (IF o.webview.value THEN {o.webview.id} ELSE {}),
                   !.webviewEvents = {}]

release(o, owner) ==
    IF o.owner # owner THEN o
    ELSE IF o.options.retainContextWhenHidden
    THEN [o EXCEPT !.owner = "undefined", !.visibility = "hidden"]
    ELSE [o EXCEPT !.owner = "undefined",
                   !.webview = [value |-> FALSE],
                   !.disposed = @ \cup (IF o.webview.value THEN {o.webview.id} ELSE {}),
                   !.webviewEvents = {}]

\* this._pendingMessages is a Set: a value is in it once, in the order of the
\* first add.
sendMessage(o, data) ==
    IF o.webview.value
    THEN [o EXCEPT !.webview.received = Append(@, data),
                   !.delivered = Append(@, data),
                   !.calls = Append(@, data)]
    ELSE [o EXCEPT !.pendingMessages =
                       IF \E k \in 1..Len(@) : @[k] = data THEN @ ELSE Append(@, data),
                   !.calls = Append(@, data)]

set_html(o, value) ==
    IF o.webview.value
    THEN [o EXCEPT !.html = value, !.webview.html = value]
    ELSE [o EXCEPT !.html = value]

set_initialScrollProgress(o, value) ==
    IF o.webview.value
    THEN [o EXCEPT !.initialScrollProgress = value,
                   !.webview.initialScrollProgress = value]
    ELSE [o EXCEPT !.initialScrollProgress = value]

set_state(o, value) ==
    IF o.webview.value
    THEN [o EXCEPT !.state = value, !.webview.state = value]
    ELSE [o EXCEPT !.state = value]

set_contentOptions(o, value) ==
    IF o.webview.value
    THEN [o EXCEPT !.contentOptions = value, !.webview.contentOptions = value]
    ELSE [o EXCEPT !.contentOptions = value]

\* update keeps the options; the html goes to the webview only, which takes
\* it with the options (webview.update).
update(o, value, contentOptions, retainContextWhenHidden) ==
    IF o.webview.value
    THEN [o EXCEPT !.contentOptions = contentOptions,
                   !.webview.html = value,
                   !.webview.contentOptions = contentOptions]
    ELSE [o EXCEPT !.contentOptions = contentOptions]

\* The listener of webview.onDidScroll.
onDidScroll(o, scrollYPercentage) ==
    [o EXCEPT !.initialScrollProgress = scrollYPercentage]

\* The listener of webview.onDidUpdateState; the webview holds the state it
\* reports.
onDidUpdateState(o, state) ==
    [o EXCEPT !.state = state, !.webview.state = state]

\* An event of the webview reaches the overlay through a subscription.
subscribed(o, event) ==
    /\ o.webview.value
    /\ [webview |-> o.webview.id, event |-> event] \in o.webviewEvents

Claim(owner) ==
    /\ overlay.webview.value \/ overlay.created < MaxWebviews
    /\ overlay' = [claim(overlay, owner) EXCEPT !.op = <<"claim", owner>>]
    /\ UNCHANGED <<editorVars, client>>

Release(owner) ==
    /\ overlay' = [release(overlay, owner) EXCEPT !.op = <<"release", owner>>]
    /\ UNCHANGED <<editorVars, client>>

SendMessage(data) ==
    /\ Len(overlay.calls) < MaxMessages
    /\ overlay' = sendMessage(overlay, data)
    /\ UNCHANGED <<editorVars, client>>

SetHtml(value) ==
    /\ overlay' = [set_html(overlay, value) EXCEPT !.given.html = value]
    /\ UNCHANGED <<editorVars, client>>

SetInitialScrollProgress(value) ==
    /\ overlay' = [set_initialScrollProgress(overlay, value) EXCEPT
                       !.given.initialScrollProgress = value]
    /\ UNCHANGED <<editorVars, client>>

SetState(value) ==
    /\ overlay' = [set_state(overlay, value) EXCEPT !.given.state = value]
    /\ UNCHANGED <<editorVars, client>>

SetContentOptions(value) ==
    /\ overlay' = [set_contentOptions(overlay, value) EXCEPT
                       !.given.contentOptions = value]
    /\ UNCHANGED <<editorVars, client>>

Update(value, contentOptions) ==
    /\ overlay' = [update(overlay, value, contentOptions,
                          overlay.options.retainContextWhenHidden) EXCEPT
                       !.given.html = value,
                       !.given.contentOptions = contentOptions]
    /\ UNCHANGED <<editorVars, client>>

OnDidScroll(scrollYPercentage) ==
    /\ subscribed(overlay, "onDidScroll")
    /\ overlay' = [onDidScroll(overlay, scrollYPercentage) EXCEPT
                       !.given.initialScrollProgress = scrollYPercentage]
    /\ UNCHANGED <<editorVars, client>>

OnDidUpdateState(state) ==
    /\ subscribed(overlay, "onDidUpdateState")
    /\ overlay' = [onDidUpdateState(overlay, state) EXCEPT !.given.state = state]
    /\ UNCHANGED <<editorVars, client>>

\* An overlay created by WebviewService.createWebviewEditorOverlay, next to
\* an editor and a service client nothing happens to.
OverlayInit ==
    /\ lines = << <<>> >>
    /\ selections = <<Selection(1, 1, 1, 1)>>
    /\ options = [wordSeparators |-> USUAL_WORD_SEPARATORS, autoClosingDelete |-> "auto",
                  autoClosingBrackets |-> "languageDefined",
                  autoClosingQuotes |-> "languageDefined"]
    /\ autoClosedCharacters = {}
    /\ last = NoCommand
    /\ client = NewServiceClient
    /\ \E retainContextWhenHidden, tryRestoreScrollPosition \in BOOLEAN :
          overlay = NewOverlay(retainContextWhenHidden, tryRestoreScrollPosition, "c0")

OverlayNext ==
    \/ \E owner \in Owners : Claim(owner)
    \/ \E owner \in Owners : Release(owner)
    \/ \E data \in Messages : SendMessage(data)
    \/ \E value \in Htmls : SetHtml(value)
    \/ \E value \in ScrollProgress : SetInitialScrollProgress(value)
    \/ \E value \in WebviewStates : SetState(value)
    \/ \E value \in ContentOptions : SetContentOptions(value)
    \/ \E value \in Htmls, contentOptions \in ContentOptions : Update(value, contentOptions)
    \/ \E scrollYPercentage \in ScrollProgress : OnDidScroll(scrollYPercentage)
    \/ \E state \in WebviewStates : OnDidUpdateState(state)

OverlaySpec == OverlayInit /\ [][OverlayNext]_vars

\* The webviews made for the overlay and not disposed.
liveWebviews == (1..overlay.created) \ overlay.disposed

\* At most one webview is alive, the one the overlay holds.
OneWebview ==
    /\ Cardinality(liveWebviews) <= 1
    /\ overlay.webview.value <=> liveWebviews # {}
    /\ overlay.webview.value => liveWebviews = {overlay.webview.id}

\* claim makes a webview exactly when there is none.
ClaimCreatesWhenNeeded ==
    \A owner \in Owners :
        Claim(owner) =>
            /\ overlay'.webview.value
            /\ overlay.webview.value =>
                  /\ overlay'.created = overlay.created
                  /\ overlay'.webview.id = overlay.webview.id
            /\ ~overlay.webview.value =>
                  /\ overlay'.created = overlay.created + 1
                  /\ overlay'.webview.id = overlay'.created

\* release by the owner disposes the webview and the subscriptions when
\* retainContextWhenHidden is false, and only hides the container when it is
\* true.
ReleaseDisposesUnlessRetained ==
    \A owner \in Owners :
        Release(owner) /\ overlay.owner = owner =>
            IF overlay.options.retainContextWhenHidden
            THEN /\ overlay'.webview = overlay.webview
                 /\ overlay'.webviewEvents = overlay.webviewEvents
                 /\ overlay'.disposed = overlay.disposed
                 /\ overlay'.visibility = "hidden"
            ELSE /\ ~overlay'.webview.value
                 /\ overlay'.webviewEvents = {}
                 /\ overlay.webview.value => overlay.webview.id \in overlay'.disposed
                 /\ liveWebviews' = {}

\* C16: the overlay never has a second webview: claim creates one only
\* when none exists, and release by the current owner disposes the webview
\* and its event subscriptions exactly when options.retainContextWhenHidden
\* is false; when it is true the webview is kept and the container hidden.
C16_WebviewCreatedAndDestroyedAsNeeded ==
    /\ []OneWebview
    /\ [][ClaimCreatesWhenNeeded /\ ReleaseDisposesUnlessRetained]_vars

\* Without retainContextWhenHidden the owner released the overlay, its
\* webview was disposed, and the next claim made a second one.
C16_Witness ==
    /\ ~overlay.options.retainContextWhenHidden
    /\ overlay.owner = "B"
    /\ overlay.created = 2
    /\ overlay.disposed = {1}
    /\ overlay.webview.value
    /\ overlay.webview.id = 2
    /\ overlay.webview.mounted
    /\ overlay.visibility = "visible"

\* C21: whenever the overlay holds a webview nothing is pending and the
\* messages handed to webviews so far are the sendMessage calls made so far,
\* one delivery per call and in the order of the calls: a call made without a
\* webview is delivered by the next claim, a call made with one is forwarded at
\* once, none is lost and none delivered twice.
C21_EveryCallDeliveredOnceInOrder ==
    overlay.webview.value =>
        /\ overlay.pendingMessages = <<>>
        /\ overlay.delivered = overlay.calls

\* C22: a release call whose argument is not the current owner leaves
\* the owner, the webview, the disposed webviews, the event subscriptions
\* and the container visibility as they were; only the owner can release.
C22_OnlyTheOwnerReleases ==
    [][\A owner \in Owners :
          Release(owner) /\ overlay.owner # owner =>
              /\ overlay'.owner = overlay.owner
              /\ overlay'.webview = overlay.webview
              /\ overlay'.disposed = overlay.disposed
              /\ overlay'.webviewEvents = overlay.webviewEvents
              /\ overlay'.visibility = overlay.visibility]_vars

\* B owns the overlay and the last call was release by A: B still owns
\* it, the one webview made is alive, subscribed to and visible.
C22_Witness ==
    /\ overlay.op = <<"release", "A">>
    /\ overlay.owner = "B"
    /\ overlay.created = 1
    /\ overlay.disposed = {}
    /\ overlay.webview.value
    /\ overlay.webview.mounted
    /\ subscribed(overlay, "onMessage")
    /\ overlay.visibility = "visible"

\* C23: in every state the overlay reaches by claim, release,
\* sendMessage, the setters, update and the events of its webview, an overlay
\* that has an owner has a webview, mounted in the container, and the
\* container is visible; an overlay without a webview has no owner.
C23_OwnedOverlayIsShown ==
    /\ overlay.owner # "undefined" =>
          /\ overlay.webview.value
          /\ overlay.webview.mounted
          /\ overlay.visibility = "visible"
    /\ ~overlay.webview.value => overlay.owner = "undefined"

\* With retainContextWhenHidden the last call claimed the overlay for A: it
\* has a webview, mounted and visible; released by A the same overlay is
\* hidden and keeps the webview, without an owner.
C23_Witness ==
    /\ overlay.options.retainContextWhenHidden
    /\ overlay.op = <<"claim", "A">>
    /\ overlay.owner = "A"
    /\ overlay.webview.value
    /\ overlay.webview.mounted
    /\ overlay.visibility = "visible"
    /\ release(overlay, "A").visibility = "hidden"
    /\ release(overlay, "A").webview = overlay.webview

\* C24: a claim that makes a webview after an earlier one was
\* destroyed initialises it with the html, the state and the content options
\* most recently given to the overlay, and with the last scroll progress when
\* tryRestoreScrollPosition is set, whether they came through a setter,
\* through update or through an event, with or without a webview at the time.
C24_RecreatedWebviewHasLatestValues ==
    [][\A owner \in Owners :
          Claim(owner) /\ ~overlay.webview.value /\ overlay.created >= 1 =>
              /\ overlay'.webview.html = overlay.given.html
              /\ overlay'.webview.state = overlay.given.state
              /\ overlay'.webview.contentOptions = overlay.given.contentOptions
              /\ overlay.options.tryRestoreScrollPosition =>
                    overlay'.webview.initialScrollProgress =
                        overlay.given.initialScrollProgress]_vars

----------------------------------------------------------------------------
(* ServiceClient and LanguageClientErrorHandler (sql-migration) *)

\* Most writes to the output channel.
MaxAppended == 4

\* Highest count of errors the client hands to the error handler.
MaxErrorCount == 2

\* Events of the ServerProvider.
Events ==
    {"INSTALL_START", "INSTALL_END", "DOWNLOAD_START", "DOWNLOAD_PROGRESS",
     "DOWNLOAD_END", "ENTRY_EXTRACTED", "LOG_EMITTED", "other"}

\* args[0] of DOWNLOAD_PROGRESS (a percentage) and of LOG_EMITTED (a level;
\* LogLevel.Warning is 5 here).
EventArgs == {0, 3, 5, 10}

LogLevel_Warning == 5

Errors == {"e1", "e2"}

IMessages == {"jsonrpc"}

serviceCrashed == "Service crashed"

\* Math.ceil(n / 5)
ceilFifth(n) == (n + 4) \div 5

appendLine(c) == [c EXCEPT !.outputChannel.appended = @ + 1]

\* The listener generateHandleServerProviderEvent returns, with its dots.
generateHandleServerProviderEvent(c, e, arg) ==
    CASE e = "INSTALL_START" ->
            [c EXCEPT !.outputChannel.shown = TRUE,
                      !.outputChannel.appended = @ + 1,
                      !.statusView.visible = TRUE,
                      !.statusView.text = "Installing"]
      [] e = "INSTALL_END" -> appendLine(c)
      [] e = "DOWNLOAD_START" ->
            [c EXCEPT !.outputChannel.appended = @ + 2,
                      !.statusView.text = "Downloading"]
      [] e = "DOWNLOAD_PROGRESS" ->
            IF ceilFifth(arg) > c.dots
            THEN [c EXCEPT !.outputChannel.appended = @ + 1, !.dots = ceilFifth(arg)]
            ELSE c
      [] e = "DOWNLOAD_END" -> appendLine(c)
      [] e = "ENTRY_EXTRACTED" -> appendLine(c)
      [] e = "LOG_EMITTED" -> IF arg >= LogLevel_Warning THEN appendLine(c) ELSE c
      [] OTHER -> c

showOnErrorPrompt(c, message) == [c EXCEPT !.prompts = Append(@, message)]

LanguageClientErrorHandler_error(error, message, count) == "Shutdown"

\* Mutant: the close handler asks for a restart.
LanguageClientErrorHandler_closed_restart == "Restart"

LanguageClientErrorHandler_closed == "DoNotRestart"

\* The language client on a connection error: it stops on Shutdown and goes
\* on otherwise.
handleConnectionError(c, action) ==
    IF action = "Shutdown" THEN [c EXCEPT !.state = "Stopped"] ELSE c

\* The language client on a closed connection: it starts again on Restart and
\* stays stopped otherwise.
handleConnectionClosed(c, action) ==
    IF action = "Restart" THEN [c EXCEPT !.state = "Starting"]
    ELSE [c EXCEPT !.state = "Stopped"]

StartService ==
    /\ client.phase = "constructed"
    /\ client' = [client EXCEPT !.phase = "readFile"]
    /\ UNCHANGED <<editorVars, overlay>>

\* await fs.readFile(...), before the try block.
ReadFile(ok) ==
    /\ client.phase = "readFile"
    /\ client' = IF ok THEN [client EXCEPT !.phase = "downloadBinaries"]
                 ELSE [client EXCEPT !.phase = "done", !.result = "rejected"]
    /\ UNCHANGED <<editorVars, overlay>>

ServerProviderEvent(e, arg) ==
    /\ client.phase = "downloadBinaries"
    /\ client.outputChannel.appended + 2 <= MaxAppended
    /\ client' = generateHandleServerProviderEvent(client, e, arg)
    /\ UNCHANGED <<editorVars, overlay>>

\* await this.downloadBinaries(context, rawConfig)
DownloadBinaries(ok) ==
    /\ client.phase = "downloadBinaries"
    /\ client' = [client EXCEPT !.phase = IF ok THEN "generateServerOptions"
                                          ELSE "showErrorMessage"]
    /\ UNCHANGED <<editorVars, overlay>>

\* The rest of the try block; thrown names the call that throws, if any.
StartClient(thrown) ==
    /\ client.phase = "generateServerOptions"
    /\ client' =
          CASE thrown \in {"generateServerOptions", "SqlOpsDataClient"} ->
                  [client EXCEPT !.phase = "showErrorMessage"]
            [] thrown = "start" ->
                  [client EXCEPT !.phase = "showErrorMessage",
                                 !.statusView.visible = TRUE,
                                 !.statusView.text = "Starting"]
            [] OTHER ->
                  [client EXCEPT !.phase = "done",
                                 !.statusView.visible = TRUE,
                                 !.statusView.text = "Starting",
                                 !.state = "Starting",
                                 !.subscriptions = @ + 1,
                                 !.result = "client"]
    /\ UNCHANGED <<editorVars, overlay>>

\* The catch block.
ShowErrorMessage ==
    /\ client.phase = "showErrorMessage"
    /\ client' = [client EXCEPT !.phase = "done", !.errorMessages = @ + 1,
                                !.result = "undefined"]
    /\ UNCHANGED <<editorVars, overlay>>

\* client.onReady().then(...)
OnReady ==
    /\ client.state = "Starting"
    /\ client' = [client EXCEPT !.state = "Running", !.statusView.text = "Started",
                                !.timer = TRUE]
    /\ UNCHANGED <<editorVars, overlay>>

\* setTimeout(() => this.statusView.hide(), 1500)
StatusViewHide ==
    /\ client.timer
    /\ client' = [client EXCEPT !.timer = FALSE, !.statusView.visible = FALSE]
    /\ UNCHANGED <<editorVars, overlay>>

ConnectionError(error, message, count) ==
    /\ client.state \in {"Starting", "Running"}
    /\ client' = handleConnectionError(showOnErrorPrompt(client, error),
                     LanguageClientErrorHandler_error(error, message, count))
    /\ UNCHANGED <<editorVars, overlay>>

ConnectionClosed ==
    /\ client.state \in {"Starting", "Running"}
    /\ client' = handleConnectionClosed(showOnErrorPrompt(client, serviceCrashed),
                                        LanguageClientErrorHandler_closed)
    /\ UNCHANGED <<editorVars, overlay>>

ClientInit ==
    /\ lines = << <<>> >>
    /\ selections = <<Selection(1, 1, 1, 1)>>
    /\ options = [wordSeparators |-> USUAL_WORD_SEPARATORS, autoClosingDelete |-> "auto",
                  autoClosingBrackets |-> "languageDefined",
                  autoClosingQuotes |-> "languageDefined"]
    /\ autoClosedCharacters = {}
    /\ last = NoCommand
    /\ overlay = NewOverlay(FALSE, FALSE, "c0")
    /\ client = NewServiceClient

ClientNext ==
    \/ StartService
    \/ \E ok \in BOOLEAN : ReadFile(ok)
    \/ \E e \in Events, arg \in EventArgs : ServerProviderEvent(e, arg)
    \/ \E ok \in BOOLEAN : DownloadBinaries(ok)
    \/ \E thrown \in {"nothing", "generateServerOptions", "SqlOpsDataClient", "start"} :
          StartClient(thrown)
    \/ ShowErrorMessage
    \/ OnReady
    \/ StatusViewHide
    \/ \E error \in Errors, message \in IMessages, count \in 1..MaxErrorCount :
          ConnectionError(error, message, count)
    \/ ConnectionClosed

ClientSpec == ClientInit /\ [][ClientNext]_vars

\* C17: the error handler answers Shutdown to every error and
\* DoNotRestart to every close, whatever the error, the message and the
\* count; every error and every close of the connection leaves the client
\* stopped, and a stopped client is never starting or running again.
C17_ServiceIsNeverRestarted ==
    /\ [](/\ \A error \in Errors, message \in IMessages, count \in 1..MaxErrorCount :
                 LanguageClientErrorHandler_error(error, message, count) = "Shutdown"
          /\ LanguageClientErrorHandler_closed = "DoNotRestart")
    /\ [][/\ (\E error \in Errors, message \in IMessages, count \in 1..MaxErrorCount :
                 ConnectionError(error, message, count)) => client'.state = "Stopped"
          /\ ConnectionClosed => client'.state = "Stopped"
          /\ client.state = "Stopped" => client'.state = "Stopped"]_vars

\* The service was started, was running, lost its connection and is stopped,
\* the crash reported once.
C17_Witness ==
    /\ client.result = "client"
    /\ client.state = "Stopped"
    /\ client.statusView.text = "Started"
    /\ client.prompts = <<serviceCrashed>>

\* C25: startService never rejects: it ends with a client or with
\* undefined; it ends with undefined only after an error message was shown,
\* and with a client only when no step failed, the client started and its
\* disposable pushed to the subscriptions.
C25_StartServiceNeverRejects ==
    /\ client.result \in {"pending", "client", "undefined"}
    /\ client.phase = "done" => client.result \in {"client", "undefined"}
    /\ client.result = "undefined" => client.errorMessages = 1
    /\ client.result = "client" =>
          /\ client.errorMessages = 0
          /\ client.subscriptions = 1

=============================================================================
